---- MODULE Spec2Model ----
(***************************************************************************)
(* A model of the TTHSDNext download engine.                               *)
(*                                                                         *)
(*  Spec          the session (HSDownloader): start / start_multiple /     *)
(*                resume, pause, stop, the per-task workers, the 500 ms    *)
(*                ticker and the event stream (src/src/core/downloader.rs) *)
(*  SpecFair      the same state machine with the fairness the tokio       *)
(*                runtime gives to tasks that are ready to run             *)
(*  SpecDownload  one call of HTTPDownloader::download: the HEAD probe,    *)
(*                the destination file, create_chunks and the chunk        *)
(*                workers streaming the bodies of their ranged GETs        *)
(*                (src/src/core/http_downloader.rs)                        *)
(*  SpecDownloadFair  the same with the fairness of the chunk workers and   *)
(*                of the timers                                            *)
(*  SpecOneControl  the session with at most one pause / stop call, with   *)
(*                the fairness of SpecFair and every download call         *)
(*                returning                                                *)
(*  SpecBinding   the Rust binding: sessions created through               *)
(*                TTHSDownloader, the global sender table and the callback *)
(*                (src/bindings/rust/src/downloader.rs)                    *)
(*                                                                         *)
(* Sizes and offsets of SpecDownload are counted in blocks of 256 KiB.    *)
(***************************************************************************)
EXTENDS Integers, Sequences, FiniteSets, TLC

\* ------------------------------------------------------------------ bounds
NumCalls == 2          \* start / start_multiple / resume invocations on the session
NumTasks == 2          \* config.tasks.len() is at most this
MaxWorkers == 2        \* download_task workers the accepted runs spawn in total
MaxUpdates == 1        \* ticks of the 500 ms interval that are observed
MaxPauses == 1         \* pause_download invocations
MaxStops == 2          \* stop_download invocations
MaxSendFailures == 1   \* deliveries to the sink that fail
MaxControls == 2       \* pause_download and stop_download invocations in total

MaxFileSize == 5        \* blocks of the remote resource (Content-Length)
MaxThreadCount == 2     \* config.thread_count
MaxChunkSizeMb == 1     \* config.chunk_size_mb
MaxItem == 2            \* blocks one item of a response stream carries
NumSessions == 2        \* sessions created through the binding
MaxEvents == 2          \* events a session hands to the callback
MaxChunks == 3          \* iterations of the loop of create_chunks that are followed

BATCH_UPDATE_THRESHOLD == 2                \* 512 * 1024 bytes, in blocks
MiB == 2 * BATCH_UPDATE_THRESHOLD          \* 1024 * 1024 bytes, in blocks
FAT32_MAX_FILE_SIZE == 16383               \* 4_294_967_295 bytes, in whole blocks
STALL_TIMEOUT == 6                         \* 30 s, in periods of the 5 s watchdog interval

Calls == 1..NumCalls
Tasks == 1..NumTasks
None == 0              \* Option::None of cancel_token; Some(token of call c) is c

VARIABLES
    nTasks,         \* config.tasks.len()
    cancel_token,   \* HSDownloader.cancel_token: None or the token a call installed
    cancelled,      \* the tokens on which cancel() has been called
    pc,             \* pc[c]: where start_download invocation c is
    task,           \* task[c][t]: where download_task t spawned by invocation c is
    dlres,          \* dlres[c][t]: what downloader.download returned ("none" before)
    abortReq,       \* abortReq[c]: join_set.abort_all() has been called by c
    ticker,         \* ticker[c]: the monitor task spawned by invocation c
    doneSent,       \* doneSent[c]: progress_done_tx holds the () message
    ctl,            \* where the pause_download / stop_download caller is
    nPause, nStop,  \* pause / stop invocations so far
    nUpdates,       \* ticks observed so far
    nFail,          \* failed deliveries so far
    sinkClosed,     \* ws_client / socket_client close() has been called
    stopReturned,   \* stop_download has returned
    stopResult,     \* what the latest stop_download returned ("none" while it runs)
    lastUpdate,     \* <<data>> of the latest update event, <<>> before the first
    beforeStop,     \* the invocations accepted before stop_download was called
    undisturbed,    \* the accepted invocations since which no pause / stop was called
    cnt,            \* cnt[k]: how many events of kind k the sink has been handed
    facts,          \* what the order of the events handed to the sink has shown
    \* --- one HTTPDownloader::download call
    remote_size,    \* blocks of the remote resource
    thread_count,   \* config.thread_count
    chunk_size_mb,  \* config.chunk_size_mb
    dpc,            \* where download is
    head,           \* <<the answer to the HEAD request>>, <<>> before it
    set_len,        \* what file.set_len returned: "ok" or "err" ("none" before)
    file_size,      \* what get_file_size returned
    total_bytes,    \* the monitor's total_bytes
    monitor_bytes,  \* the sum of the deltas given to monitor.add_bytes
    fileCreated,    \* the destination file exists
    file,           \* file[o]: the block stored at offset o, 0 where nothing was written
    chunks,         \* what create_chunks returned
    worker,         \* worker[i]: the download_chunk call of chunks[i]
    downloaded_size, \* the shared counter downloaded_size
    \* --- the Rust binding (TTHSDownloader)
    lib,            \* lib[id]: the session with handle id inside the library
    origin,         \* origin[id]: the binding call that created session id
    bpc,            \* bpc[id]: where the binding call that concerns id is
    SENDER_MAP,     \* the ids that have a sender in the global table
    emitted,        \* emitted[id]: events session id has passed to the callback
    received        \* received[ch][id]: events of session id on the channel of ch

vars == <<nTasks, cancel_token, cancelled, pc, task, dlres, abortReq, ticker, doneSent,
          ctl, nPause, nStop, nUpdates, nFail, sinkClosed, stopReturned, stopResult,
          lastUpdate, beforeStop, undisturbed, cnt, facts,
          remote_size, thread_count, chunk_size_mb, dpc, head, set_len, file_size,
          total_bytes, monitor_bytes, fileCreated, file, chunks, worker, downloaded_size,
          lib, origin, bpc, SENDER_MAP, emitted, received>>

bindingVars == <<lib, origin, bpc, SENDER_MAP, emitted, received>>

sessionVars == <<nTasks, cancel_token, cancelled, pc, task, dlres, abortReq, ticker,
                 doneSent, ctl, nPause, nStop, nUpdates, nFail, sinkClosed, stopReturned, stopResult, lastUpdate,
                 beforeStop, undisturbed, cnt, facts>>

downloadVars == <<remote_size, thread_count, chunk_size_mb, dpc, head, set_len, file_size,
                  total_bytes, monitor_bytes, fileCreated, file, chunks, worker,
                  downloaded_size>>

\* The tasks of the configuration: config.tasks
ConfigTasks == 1..nTasks

\* ------------------------------------------------------------------ events
\* The kinds of Event: <<event_type, run, task>>; run is the invocation whose run
\* emits it (0 for pause/stop), task is 0 for the session-level events. The two
\* msg events are told apart by their Text.
EventKinds ==
    ({"start", "end", "update"} \X Calls \X {0})
        \cup ({"startOne", "err", "endOne"} \X Calls \X Tasks)
        \cup ({"msgPaused", "msgStopped"} \X {0} \X {0})

Event(type, run, t) == <<type, run, t>>

\* What handing event e to the sink in the current state shows about the order of
\* the event stream (the stream itself is not kept: its length is unbounded in the
\* number of interleavings).
OrderFacts(e) ==
    LET type == e[1]
        c == e[2]
        t == e[3]
    IN  {<<"after stop returned">> :
                   x \in IF /\ stopReturned
                            /\ c \in beforeStop
                            /\ type \in {"update", "err", "endOne", "end"}
                         THEN {0} ELSE {}}
        \cup {<<"startOne before start", c>> :
                   x \in IF type = "startOne" /\ cnt[<<"start", c, 0>>] = 0 THEN {0} ELSE {}}
        \cup {<<"endOne before startOne", c, t>> :
                   x \in IF type = "endOne" /\ cnt[<<"startOne", c, t>>] = 0 THEN {0} ELSE {}}
        \cup {<<"err after endOne", c, t>> :
                   x \in IF type = "err" /\ cnt[<<"endOne", c, t>>] > 0 THEN {0} ELSE {}}
        \cup {<<"endOne after end", c>> :
                   x \in IF type = "endOne" /\ cnt[<<"end", c, 0>>] > 0 THEN {0} ELSE {}}
        \cup {<<"end before endOne", c>> :
                   x \in IF type = "end" /\ (\E v \in ConfigTasks : cnt[<<"endOne", c, v>>] = 0)
                         THEN {0} ELSE {}}
        \cup {<<"err after cancel", c>> :
                   x \in IF type = "err" /\ c \in cancelled THEN {0} ELSE {}}
        \cup {<<"update after paused", c>> :
                   x \in IF /\ type = "update"
                            /\ c \in cancelled
                            /\ ctl \notin {"pauseMsg", "stopPauseMsg"}
                            /\ \A d \in Calls : d > c => pc[d] \in {"idle", "retRunning"}
                         THEN {0} ELSE {}}
        \cup {<<"update after end", c>> :
                   x \in IF type = "update" /\ cnt[<<"end", c, 0>>] > 0 THEN {0} ELSE {}}
        \cup {<<"paused msg of stop">> :
                   x \in IF /\ type = "msgPaused"
                            /\ ctl = "stopPauseMsg"
                            /\ nPause = 0
                            /\ cancelled # {}
                         THEN {0} ELSE {}}
        \cup {<<"event after sinks closed">> :
                   x \in IF sinkClosed THEN {0} ELSE {}}
        \cup {<<"event of a repeated stop">> :
                   x \in IF /\ type \in {"msgPaused", "msgStopped"}
                            /\ ctl \in {"stopPauseMsg", "stopMsg"}
                            /\ nStop > 1
                         THEN {0} ELSE {}}

\* send_message(event, data, config, ws_client, socket_client): the event reaches
\* the sink.
send_message(e) ==
    /\ cnt' = [cnt EXCEPT ![e] = @ + 1]
    /\ facts' = facts \cup OrderFacts(e)

noEvent == UNCHANGED <<cnt, facts>>

\* ------------------------------------------------------------------ Init
Offsets == 0..(2 * MaxFileSize - 1)

\* No download call is in progress.
DownloadIdle ==
    /\ dpc = "off"
    /\ head = <<>>
    /\ set_len = "none"
    /\ file_size = 0
    /\ total_bytes = 0
    /\ monitor_bytes = 0
    /\ fileCreated = FALSE
    /\ file = [o \in Offsets |-> 0]
    /\ chunks = <<>>
    /\ worker = <<>>
    /\ downloaded_size = 0

SessionIdle(n) ==
    /\ nTasks = n
    /\ cancel_token = None
    /\ cancelled = {}
    /\ pc = [c \in Calls |-> "idle"]
    /\ task = [c \in Calls |-> [t \in Tasks |-> "none"]]
    /\ dlres = [c \in Calls |-> [t \in Tasks |-> "none"]]
    /\ abortReq = [c \in Calls |-> FALSE]
    /\ ticker = [c \in Calls |-> "off"]
    /\ doneSent = [c \in Calls |-> FALSE]
    /\ ctl = "idle"
    /\ nPause = 0
    /\ nStop = 0
    /\ nUpdates = 0
    /\ nFail = 0
    /\ sinkClosed = FALSE
    /\ stopReturned = FALSE
    /\ stopResult = "none"
    /\ lastUpdate = <<>>
    /\ beforeStop = {}
    /\ undisturbed = {}
    /\ cnt = [k \in EventKinds |-> 0]
    /\ facts = {}

Sessions == 1..NumSessions

\* Nothing was created through the binding.
BindingIdle ==
    /\ lib = [id \in Sessions |-> "none"]
    /\ origin = [id \in Sessions |-> "none"]
    /\ bpc = [id \in Sessions |-> "idle"]
    /\ SENDER_MAP = {}
    /\ emitted = [id \in Sessions |-> 0]
    /\ received = [ch \in Sessions |-> [id \in Sessions |-> 0]]

Init ==
    /\ BindingIdle
    /\ \E n \in 1..NumTasks : SessionIdle(n)
    /\ remote_size = 0
    /\ thread_count = 1
    /\ chunk_size_mb = 1
    /\ DownloadIdle

\* ------------------------------------------------------------------ start
\* cancel_guard.is_some()
IsRunning_Unchecked == FALSE

IsRunning == cancel_token # None

\* The invocations that were accepted (that installed a token).
Accepted == {c \in Calls : pc[c] \notin {"idle", "retRunning"}}

\* The token an accepted invocation installs: *cancel_guard = Some(token.clone())
InstalledToken(c) == c

\* Lines 139-147, under the cancel_token mutex: refuse when a token is installed,
\* otherwise install a fresh one.
TryStart(c) ==
    /\ pc[c] = "idle"
    /\ IF c = 1 THEN TRUE ELSE pc[c - 1] # "idle"
    /\ IsRunning \/ (Cardinality(Accepted) + 1) * nTasks <= MaxWorkers
    /\ IF IsRunning
       THEN /\ pc' = [pc EXCEPT ![c] = "retRunning"]
            /\ UNCHANGED <<cancel_token, undisturbed>>
       ELSE /\ cancel_token' = InstalledToken(c)
            /\ pc' = [pc EXCEPT ![c] = "sendStart"]
            /\ undisturbed' = undisturbed \cup {c}
    /\ UNCHANGED <<nTasks, cancelled, task, dlres, abortReq, ticker, doneSent, ctl, nPause,
                   nStop, nUpdates, nFail, sinkClosed, stopReturned, stopResult, lastUpdate, beforeStop, cnt, facts>>
    /\ UNCHANGED downloadVars
    /\ UNCHANGED bindingVars

start_download(c) == TryStart(c)

start_multiple_downloads(c) == TryStart(c)

resume_download(c) == TryStart(c)

\* Lines 149-218: the start event is sent; when its delivery fails the `?` returns
\* the error at once. Otherwise one download_task per task and the ticker are
\* spawned.
SendStart(c) ==
    /\ pc[c] = "sendStart"
    /\ \/ /\ send_message(Event("start", c, 0))
          /\ task' = [task EXCEPT ![c] =
                        [t \in Tasks |-> IF t \in ConfigTasks THEN "startOne" ELSE "none"]]
          /\ ticker' = [ticker EXCEPT ![c] = "running"]
          /\ pc' = [pc EXCEPT ![c] = "join"]
          /\ UNCHANGED nFail
       \/ /\ nFail < MaxSendFailures
          /\ nFail' = nFail + 1
          /\ pc' = [pc EXCEPT ![c] = "retSendErr"]
          /\ UNCHANGED <<task, ticker, cnt, facts>>
    /\ UNCHANGED <<nTasks, cancel_token, cancelled, dlres, abortReq, doneSent, ctl, nPause,
                   nStop, nUpdates, sinkClosed, stopReturned, stopResult, lastUpdate,
                   beforeStop, undisturbed>>
    /\ UNCHANGED downloadVars
    /\ UNCHANGED bindingVars

\* token.is_cancelled()
is_cancelled(c) == InstalledToken(c) \in cancelled

\* Line 226: after task t was joined, the remaining tasks are aborted when the
\* token is cancelled.
MustAbort_OnFailure(c, t) == is_cancelled(c) \/ dlres[c][t] = "err"

MustAbort(c, t) == is_cancelled(c)

\* Line 221: join_next() yields None once every task has been joined.
LoopEnds_AfterFirst(c, t) == TRUE

LoopEnds(c, t) == \A u \in ConfigTasks \ {t} : task[c][u] = "joined"

\* Lines 221-230: join_next yields a finished task; when the token is cancelled
\* the remaining tasks are aborted and the loop is left; the loop also ends when
\* the set is empty.
JoinNext(c, t) ==
    /\ pc[c] = "join"
    /\ task[c][t] = "done"
    /\ task' = [task EXCEPT ![c][t] = "joined"]
    /\ IF MustAbort(c, t)
       THEN /\ abortReq' = [abortReq EXCEPT ![c] = TRUE]
            /\ pc' = [pc EXCEPT ![c] = "stopMon"]
       ELSE /\ UNCHANGED abortReq
            /\ pc' = [pc EXCEPT ![c] = IF LoopEnds(c, t) THEN "stopMon" ELSE "join"]
    /\ UNCHANGED <<nTasks, cancel_token, cancelled, dlres, ticker, doneSent, ctl, nPause,
                   nStop, nUpdates, nFail, sinkClosed, stopReturned, stopResult,
                   lastUpdate, beforeStop, undisturbed, cnt, facts>>
    /\ UNCHANGED downloadVars
    /\ UNCHANGED bindingVars

\* Line 233: send on the capacity-1 channel nobody else sends on. The message is
\* queued at once while the monitor task holds the receiver; once the task has
\* ended the receiver is dropped and send returns Err, which is ignored.
DoneQueued_Never(c) == FALSE

DoneQueued(c) == ticker[c] = "running"

\* Line 233: progress_done_tx.send(()).await
StopMonitor(c) ==
    /\ pc[c] = "stopMon"
    /\ doneSent' = [doneSent EXCEPT ![c] = DoneQueued(c)]
    /\ pc' = [pc EXCEPT ![c] = "awaitMon"]
    /\ UNCHANGED <<nTasks, cancel_token, cancelled, task, dlres, abortReq, ticker, ctl, nPause,
                   nStop, nUpdates, nFail, sinkClosed, stopReturned, stopResult,
                   lastUpdate, beforeStop, undisturbed, cnt, facts>>
    /\ UNCHANGED downloadVars
    /\ UNCHANGED bindingVars

\* Line 234: monitor_handle.await returns when the monitor task has ended.
MonitorJoined_NoWait(c) == TRUE

MonitorJoined(c) == ticker[c] = "stopped"

\* Line 234: monitor_handle.await
AwaitMonitor(c) ==
    /\ pc[c] = "awaitMon"
    /\ MonitorJoined(c)
    /\ pc' = [pc EXCEPT ![c] = "sendEnd"]
    /\ UNCHANGED <<nTasks, cancel_token, cancelled, task, dlres, abortReq, ticker, doneSent, ctl,
                   nPause, nStop, nUpdates, nFail, sinkClosed, stopReturned, stopResult,
                   lastUpdate, beforeStop, undisturbed, cnt, facts>>
    /\ UNCHANGED downloadVars
    /\ UNCHANGED bindingVars

\* Lines 236-243: the end event; a failed delivery returns the error.
SendEnd(c) ==
    /\ pc[c] = "sendEnd"
    /\ \/ /\ send_message(Event("end", c, 0))
          /\ pc' = [pc EXCEPT ![c] = "clear"]
          /\ UNCHANGED nFail
       \/ /\ nFail < MaxSendFailures
          /\ nFail' = nFail + 1
          /\ pc' = [pc EXCEPT ![c] = "retSendErr"]
          /\ noEvent
    /\ UNCHANGED <<nTasks, cancel_token, cancelled, task, dlres, abortReq, ticker, doneSent, ctl,
                   nPause, nStop, nUpdates, sinkClosed, stopReturned, stopResult,
                   lastUpdate, beforeStop, undisturbed>>
    /\ UNCHANGED downloadVars
    /\ UNCHANGED bindingVars

\* Lines 249-253: *cancel_guard = None; Ok(())
ClearToken(c) ==
    /\ pc[c] = "clear"
    /\ cancel_token' = None
    /\ pc' = [pc EXCEPT ![c] = "retOk"]
    /\ UNCHANGED <<nTasks, cancelled, task, dlres, abortReq, ticker, doneSent, ctl, nPause,
                   nStop, nUpdates, nFail, sinkClosed, stopReturned, stopResult,
                   lastUpdate, beforeStop, undisturbed, cnt, facts>>
    /\ UNCHANGED downloadVars
    /\ UNCHANGED bindingVars

\* ------------------------------------------------------------------ ticker
\* monitor.get_stats(): the snapshot of the global performance monitor, with the
\* keys total_bytes, downloaded_bytes and its duplicate Downloaded.
get_stats ==
    [k \in {"total_bytes", "downloaded_bytes", "Downloaded"} |->
        IF k = "total_bytes" THEN total_bytes ELSE monitor_bytes]

\* Lines 198-200: the key Downloaded is inserted (replacing the one that is there)
\* with the value found under total_bytes, when the snapshot has that key.
UpdateData(stats) ==
    IF "total_bytes" \in DOMAIN stats
    THEN [k \in DOMAIN stats \cup {"Downloaded"} |->
             IF k = "Downloaded" THEN stats["total_bytes"] ELSE stats[k]]
    ELSE stats

\* Lines 189-218, the interval.tick() branch of select!: an update event.
TickerTick(c) ==
    /\ ticker[c] = "running"
    /\ nUpdates < MaxUpdates
    /\ nUpdates' = nUpdates + 1
    /\ send_message(Event("update", c, 0))
    /\ lastUpdate' = <<UpdateData(get_stats)>>
    /\ UNCHANGED <<nTasks, cancel_token, cancelled, pc, task, dlres, abortReq, ticker, doneSent,
                   ctl, nPause, nStop, nFail, sinkClosed, stopReturned, stopResult,
                   beforeStop, undisturbed>>
    /\ UNCHANGED downloadVars
    /\ UNCHANGED bindingVars

\* The progress_done_rx.recv() and monitor_token.cancelled() branches: break.
TickerExit(c) ==
    /\ ticker[c] = "running"
    /\ doneSent[c] \/ is_cancelled(c)
    /\ ticker' = [ticker EXCEPT ![c] = "stopped"]
    /\ UNCHANGED <<nTasks, cancel_token, cancelled, pc, task, dlres, abortReq, doneSent, ctl,
                   nPause, nStop, nUpdates, nFail, sinkClosed, stopReturned, stopResult,
                   lastUpdate, beforeStop, undisturbed, cnt, facts>>
    /\ UNCHANGED downloadVars
    /\ UNCHANGED bindingVars

\* ------------------------------------------------------------------ download_task
taskUnchanged == <<nTasks, cancel_token, cancelled, pc, abortReq, ticker, doneSent, ctl,
                   nPause, nStop, nUpdates, nFail, sinkClosed, stopReturned, stopResult,
                   lastUpdate, beforeStop, undisturbed>>

\* Lines 378-399: the startOne event.
TaskStartOne(c, t) ==
    /\ task[c][t] = "startOne"
    /\ send_message(Event("startOne", c, t))
    /\ task' = [task EXCEPT ![c][t] = "download"]
    /\ UNCHANGED dlres
    /\ UNCHANGED taskUnchanged
    /\ UNCHANGED downloadVars
    /\ UNCHANGED bindingVars

\* Lines 420-421: an err event is due when the download failed and the token is
\* not cancelled.
ErrIsDue_Always(c, res) == ~is_cancelled(c)

ErrIsDue(c, res) == res = "err" /\ ~is_cancelled(c)

\* Lines 402-421: downloader.download(&task) returns Ok or Err.
TaskDownloadReturns(c, t) ==
    /\ task[c][t] = "download"
    /\ \E res \in {"ok", "err"} :
          /\ dlres' = [dlres EXCEPT ![c][t] = res]
          /\ task' = [task EXCEPT ![c][t] = IF ErrIsDue(c, res) THEN "err" ELSE "endOne"]
    /\ noEvent
    /\ UNCHANGED taskUnchanged
    /\ UNCHANGED downloadVars
    /\ UNCHANGED bindingVars

\* Lines 422-431: the err event.
TaskSendErr(c, t) ==
    /\ task[c][t] = "err"
    /\ send_message(Event("err", c, t))
    /\ task' = [task EXCEPT ![c][t] = "endOne"]
    /\ UNCHANGED dlres
    /\ UNCHANGED taskUnchanged
    /\ UNCHANGED downloadVars
    /\ UNCHANGED bindingVars

\* Lines 435-442: the endOne event.
TaskSendEndOne(c, t) ==
    /\ task[c][t] = "endOne"
    /\ send_message(Event("endOne", c, t))
    /\ task' = [task EXCEPT ![c][t] = "done"]
    /\ UNCHANGED dlres
    /\ UNCHANGED taskUnchanged
    /\ UNCHANGED downloadVars
    /\ UNCHANGED bindingVars

\* join_set.abort_all(): an aborted task stops at the await point it is at, unless
\* that await is ready and the task runs on.
TaskAborted(c, t) ==
    /\ abortReq[c]
    /\ task[c][t] \in {"startOne", "download", "err", "endOne"}
    /\ task' = [task EXCEPT ![c][t] = "aborted"]
    /\ UNCHANGED <<dlres, cnt, facts>>
    /\ UNCHANGED taskUnchanged
    /\ UNCHANGED downloadVars
    /\ UNCHANGED bindingVars

\* ------------------------------------------------------------------ pause / stop
\* Lines 446-450: cancel_guard.take() and token.cancel(), under the mutex.
TakeAndCancel_KeepsToken ==
    /\ cancelled' = IF cancel_token # None THEN cancelled \cup {cancel_token} ELSE cancelled
    /\ UNCHANGED cancel_token

TakeAndCancel ==
    /\ cancelled' = IF cancel_token # None THEN cancelled \cup {cancel_token} ELSE cancelled
    /\ cancel_token' = None

\* pause_download, lines 445-450.
PauseTake ==
    /\ ctl = "idle"
    /\ nPause < MaxPauses
    /\ nPause + nStop < MaxControls
    /\ nPause' = nPause + 1
    /\ TakeAndCancel
    /\ undisturbed' = {}
    /\ ctl' = "pauseMsg"
    /\ UNCHANGED <<nTasks, pc, task, dlres, abortReq, ticker, doneSent, nStop, nUpdates, nFail,
                   sinkClosed, stopReturned, stopResult, lastUpdate, beforeStop, cnt, facts>>
    /\ UNCHANGED downloadVars
    /\ UNCHANGED bindingVars

\* pause_download, lines 452-462: the msg event with text 下载已暂停.
PauseMsg ==
    /\ ctl \in {"pauseMsg", "stopPauseMsg"}
    /\ send_message(Event("msgPaused", 0, 0))
    /\ ctl' = IF ctl = "pauseMsg" THEN "idle" ELSE "stopClose"
    /\ UNCHANGED <<nTasks, cancel_token, cancelled, pc, task, dlres, abortReq, ticker, doneSent,
                   nPause, nStop, nUpdates, nFail, sinkClosed, stopReturned, stopResult,
                   lastUpdate, beforeStop, undisturbed>>
    /\ UNCHANGED downloadVars
    /\ UNCHANGED bindingVars

\* stop_download, line 470: self.pause_download().await
StopTake ==
    /\ ctl = "idle"
    /\ nStop < MaxStops
    /\ nPause + nStop < MaxControls
    /\ nStop' = nStop + 1
    /\ TakeAndCancel
    /\ ctl' = "stopPauseMsg"
    /\ beforeStop' = IF nStop = 0 THEN Accepted ELSE beforeStop
    /\ undisturbed' = {}
    /\ stopResult' = "none"
    /\ UNCHANGED <<nTasks, pc, task, dlres, abortReq, ticker, doneSent, nPause, nUpdates, nFail,
                   sinkClosed, stopReturned, lastUpdate, cnt, facts>>
    /\ UNCHANGED downloadVars
    /\ UNCHANGED bindingVars

\* stop_download, lines 472-481: the sinks are closed.
StopClose ==
    /\ ctl = "stopClose"
    /\ sinkClosed' = TRUE
    /\ ctl' = "stopMsg"
    /\ UNCHANGED <<nTasks, cancel_token, cancelled, pc, task, dlres, abortReq, ticker, doneSent,
                   nPause, nStop, nUpdates, nFail, stopReturned, stopResult, lastUpdate,
                   beforeStop, undisturbed, cnt, facts>>
    /\ UNCHANGED downloadVars
    /\ UNCHANGED bindingVars

\* stop_download, lines 483-495: the msg event with text 下载已停止, then return.
StopMsg ==
    /\ ctl = "stopMsg"
    /\ \/ /\ send_message(Event("msgStopped", 0, 0))
          /\ stopResult' = "ok"
          /\ UNCHANGED nFail
       \/ /\ nFail < MaxSendFailures
          /\ nFail' = nFail + 1
          /\ stopResult' = "err"
          /\ noEvent
    /\ stopReturned' = TRUE
    /\ ctl' = "idle"
    /\ UNCHANGED <<nTasks, cancel_token, cancelled, pc, task, dlres, abortReq, ticker, doneSent,
                   nPause, nStop, nUpdates, sinkClosed, lastUpdate, beforeStop, undisturbed>>
    /\ UNCHANGED downloadVars
    /\ UNCHANGED bindingVars

\* ------------------------------------------------------------------ Next
Next ==
    \/ \E c \in Calls : start_download(c)
    \/ \E c \in Calls : start_multiple_downloads(c)
    \/ \E c \in Calls : resume_download(c)
    \/ \E c \in Calls : SendStart(c)
    \/ \E c \in Calls, t \in Tasks : JoinNext(c, t)
    \/ \E c \in Calls : StopMonitor(c)
    \/ \E c \in Calls : AwaitMonitor(c)
    \/ \E c \in Calls : SendEnd(c)
    \/ \E c \in Calls : ClearToken(c)
    \/ \E c \in Calls : TickerTick(c)
    \/ \E c \in Calls : TickerExit(c)
    \/ \E c \in Calls, t \in Tasks : TaskStartOne(c, t)
    \/ \E c \in Calls, t \in Tasks : TaskDownloadReturns(c, t)
    \/ \E c \in Calls, t \in Tasks : TaskSendErr(c, t)
    \/ \E c \in Calls, t \in Tasks : TaskSendEndOne(c, t)
    \/ \E c \in Calls, t \in Tasks : TaskAborted(c, t)
    \/ PauseTake
    \/ PauseMsg
    \/ StopTake
    \/ StopClose
    \/ StopMsg

Spec == Init /\ [][Next]_vars

\* ================================================================== download
\* The block of the remote resource at offset o (never 0, so that a block that
\* was not written, or was written at the wrong offset, shows).
Remote(o) == o + 1

Min(a, b) == IF a < b THEN a ELSE b

\* What the server answers to the HEAD request: the request fails in transport or
\* is answered; the status is 2xx or not; the Content-Length header is present or
\* not, parses as an integer or not, and its value is negative, zero or the size
\* of the resource.
HeadResponses ==
    [sent : BOOLEAN, success : BOOLEAN, present : BOOLEAN, parses : BOOLEAN,
     value : {-1, 0, remote_size}]

\* get_file_size, lines 131-153: Ok(content_length) only for a 2xx answer with a
\* Content-Length that parses and is positive; -1 stands for Err.
get_file_size_AcceptsZero(h) ==
    IF ~h.sent THEN -1
    ELSE IF ~h.success THEN -1
    ELSE IF ~(h.present /\ h.parses) THEN -1
    ELSE IF h.value < 0 THEN -1
    ELSE h.value

get_file_size(h) ==
    IF ~h.sent THEN -1
    ELSE IF ~h.success THEN -1
    ELSE IF ~(h.present /\ h.parses) THEN -1
    ELSE IF h.value <= 0 THEN -1
    ELSE h.value

\* create_chunks, lines 156-164: the chunk size in use.
EffectiveChunkSize_NoEnlarge(fs, chunk_size, tc) == chunk_size

EffectiveChunkSize(fs, chunk_size, tc) ==
    LET min_chunks == tc * 2
    IN  IF fs \div min_chunks > chunk_size
        THEN IF fs \div min_chunks < MiB THEN MiB ELSE fs \div min_chunks
        ELSE chunk_size

\* The local variable offset of create_chunks: 0 at first, end + 1 after a push.
offset == IF chunks = <<>> THEN 0 ELSE chunks[Len(chunks)].end_offset + 1

\* A download call whose session is in the middle of a run: invocation 1 was
\* accepted, sent start and spawned its one task and its ticker; the task sent
\* startOne and called downloader.download.
SessionDownloading ==
    /\ nTasks = 1
    /\ cancel_token = InstalledToken(1)
    /\ cancelled = {}
    /\ pc = [c \in Calls |-> IF c = 1 THEN "join" ELSE "idle"]
    /\ task = [c \in Calls |-> [t \in Tasks |-> IF c = 1 /\ t = 1 THEN "download" ELSE "none"]]
    /\ dlres = [c \in Calls |-> [t \in Tasks |-> "none"]]
    /\ abortReq = [c \in Calls |-> FALSE]
    /\ ticker = [c \in Calls |-> IF c = 1 THEN "running" ELSE "off"]
    /\ doneSent = [c \in Calls |-> FALSE]
    /\ ctl = "idle"
    /\ nPause = 0
    /\ nStop = 0
    /\ nUpdates = 0
    /\ nFail = 0
    /\ sinkClosed = FALSE
    /\ stopReturned = FALSE
    /\ stopResult = "none"
    /\ lastUpdate = <<>>
    /\ beforeStop = {}
    /\ undisturbed = {1}
    /\ cnt = [k \in EventKinds |->
                 IF k \in {<<"start", 1, 0>>, <<"startOne", 1, 1>>} THEN 1 ELSE 0]
    /\ facts = {}

\* The sizes of the remote resource: the small ones, and one above the FAT32
\* limit (followed with thread_count 0 and 1 only).
RemoteSizes == (1..MaxFileSize) \cup {FAT32_MAX_FILE_SIZE + 1}

InitDownload ==
    /\ BindingIdle
    /\ SessionDownloading
    /\ remote_size \in RemoteSizes
    /\ thread_count \in 0..MaxThreadCount
    /\ remote_size > MaxFileSize => thread_count <= 1
    /\ chunk_size_mb \in 0..MaxChunkSizeMb
    /\ dpc = "probe"
    /\ head = <<>>
    /\ set_len = "none"
    /\ file_size = 0
    /\ total_bytes = 0
    /\ monitor_bytes = 0
    /\ fileCreated = FALSE
    /\ file = [o \in Offsets |-> 0]
    /\ chunks = <<>>
    /\ worker = <<>>
    /\ downloaded_size = 0

\* download, lines 317-324: the probe; on success the monitor's total is set.
Probe ==
    /\ dpc = "probe"
    /\ \E h \in HeadResponses :
          /\ head' = <<h>>
          /\ IF get_file_size(h) < 0
             THEN /\ dpc' = "retErr"
                  /\ UNCHANGED <<file_size, total_bytes>>
             ELSE /\ file_size' = get_file_size(h)
                  /\ total_bytes' = get_file_size(h)
                  /\ dpc' = "open"
    /\ UNCHANGED <<set_len, remote_size, thread_count, chunk_size_mb, monitor_bytes, fileCreated,
                   file, chunks, worker, downloaded_size>>
    /\ UNCHANGED sessionVars
    /\ UNCHANGED bindingVars

\* download, lines 326-329: the destination file is opened, created if absent.
OpenFile ==
    /\ dpc = "open"
    /\ \/ /\ fileCreated' = TRUE
          /\ dpc' = "alloc"
       \/ /\ dpc' = "retErr"
          /\ UNCHANGED fileCreated
    /\ UNCHANGED <<head, set_len, remote_size, thread_count, chunk_size_mb, file_size, total_bytes,
                   monitor_bytes, file, chunks, worker, downloaded_size>>
    /\ UNCHANGED sessionVars
    /\ UNCHANGED bindingVars

\* Lines 336-342: a failed set_len is fatal when the size is above the FAT32
\* limit.
SetLenFatal_Always(set_len_ok, fs) == ~set_len_ok

SetLenFatal(set_len_ok, fs) == ~set_len_ok /\ fs > FAT32_MAX_FILE_SIZE

\* download, lines 336-344: set_len succeeds or fails; a failure is fatal only
\* above the FAT32 limit.
Allocate ==
    /\ dpc = "alloc"
    /\ \E set_len_ok \in BOOLEAN :
          /\ set_len' = IF set_len_ok THEN "ok" ELSE "err"
          /\ dpc' = IF SetLenFatal(set_len_ok, file_size) THEN "retErr" ELSE "create_chunks"
    /\ UNCHANGED <<head, remote_size, thread_count, chunk_size_mb, file_size, total_bytes,
                   monitor_bytes, fileCreated, file, chunks, worker, downloaded_size>>
    /\ UNCHANGED sessionVars
    /\ UNCHANGED bindingVars

\* create_chunks, lines 156-167: the division by min_chunks panics when
\* thread_count is 0; otherwise the loop is entered with offset 0.
create_chunks ==
    /\ dpc = "create_chunks"
    /\ dpc' = IF thread_count * 2 = 0 THEN "panic" ELSE "chunk loop"
    /\ UNCHANGED <<head, set_len, remote_size, thread_count, chunk_size_mb, file_size, total_bytes,
                   monitor_bytes, fileCreated, file, chunks, worker, downloaded_size>>
    /\ UNCHANGED sessionVars
    /\ UNCHANGED bindingVars

\* create_chunks, lines 169-177: one iteration of the while loop.
ChunkLoop ==
    /\ dpc = "chunk loop"
    /\ offset < file_size
    /\ Len(chunks) < MaxChunks
    /\ LET chunk_size == EffectiveChunkSize(file_size, chunk_size_mb * MiB, thread_count)
           end == Min(offset + chunk_size - 1, file_size - 1)
       IN  chunks' = Append(chunks, [start_offset |-> offset, end_offset |-> end])
    /\ UNCHANGED <<head, set_len, remote_size, thread_count, chunk_size_mb, dpc, file_size, total_bytes,
                   monitor_bytes, fileCreated, file, worker, downloaded_size>>
    /\ UNCHANGED sessionVars
    /\ UNCHANGED bindingVars

\* download_chunk before its request is sent.
NewWorker == [pc |-> "get", kind |-> "none", from |-> 0, left |-> 0, endErr |-> FALSE,
              silent |-> FALSE,
              written |-> 0, local |-> 0, elapsed |-> 0, watch |-> "off"]

\* create_chunks returns when offset has reached file_size; download, lines
\* 361-373: one worker per chunk is spawned.
SpawnChunks ==
    /\ dpc = "chunk loop"
    /\ ~(offset < file_size)
    /\ worker' = [i \in 1..Len(chunks) |-> NewWorker]
    /\ dpc' = "joining"
    /\ UNCHANGED <<head, set_len, remote_size, thread_count, chunk_size_mb, file_size, total_bytes,
                   monitor_bytes, fileCreated, file, chunks, downloaded_size>>
    /\ UNCHANGED sessionVars
    /\ UNCHANGED bindingVars

\* The longest body that is followed: a whole small resource, one block of the
\* resource above the FAT32 limit.
MaxBody == IF remote_size > MaxFileSize THEN 1 ELSE MaxFileSize

\* What the server answers to the ranged GET of chunk ch: a transport error, a
\* non-2xx status, or a 2xx answer whose body is `len` blocks of the resource
\* starting at `from`, after which the stream ends or fails. A 206 answer starts
\* at the requested offset and holds the requested range, less or more; a server
\* without range support answers 200 with the whole resource. A silent server
\* sends its `len` blocks and then nothing more, neither data nor the end. Only
\* the answers whose body has at most MaxBody blocks are followed.
ServerResponses(ch) ==
    {[kind |-> k, from |-> 0, len |-> 0, endErr |-> FALSE, silent |-> FALSE] :
         k \in {"transport error", "status 500"}}
    \cup {[kind |-> "206", from |-> ch.start_offset, len |-> n, endErr |-> e,
            silent |-> FALSE] :
             n \in 0..Min(remote_size - ch.start_offset, MaxBody), e \in BOOLEAN}
    \cup {[kind |-> "206", from |-> ch.start_offset, len |-> n, endErr |-> FALSE,
            silent |-> TRUE] :
             n \in 0..Min(remote_size - ch.start_offset - 1, MaxBody)}
    \cup {[kind |-> "200", from |-> 0, len |-> remote_size, endErr |-> FALSE,
            silent |-> FALSE] : x \in IF remote_size <= MaxBody THEN {0} ELSE {}}

\* response.status().is_success()
is_success(r) == r.kind \in {"206", "200"}

\* Line 208: of the channel only the sender is kept; the receiver is dropped at
\* the end of the statement, which closes the channel.
stalled_rx_dropped == TRUE

\* Line 263: stalled_tx.try_reserve().is_ok(): a permit is granted by a channel
\* that is open and has a free slot (the watchdog's message takes the only one).
try_reserve_is_ok(w) == ~stalled_rx_dropped /\ w.watch = "running"

\* The worker's position after an item was handled, lines 262-266.
AfterItem(w) == IF try_reserve_is_ok(w) THEN "err" ELSE "stream"

\* download_chunk, lines 189-236: the request; an error or a non-2xx status fails
\* the chunk, otherwise the stall watchdog is spawned and the file is opened and
\* sought to start_offset.
ChunkGet(i) ==
    /\ dpc = "joining"
    /\ i \in DOMAIN worker
    /\ worker[i].pc = "get"
    /\ \E r \in ServerResponses(chunks[i]) :
          worker' = [worker EXCEPT ![i] =
                        IF is_success(r)
                        THEN [@ EXCEPT !.pc = "stream", !.kind = r.kind,
                                       !.from = r.from, !.left = r.len,
                                       !.endErr = r.endErr, !.silent = r.silent,
                                       !.watch = "running"]
                        ELSE [@ EXCEPT !.pc = "err", !.kind = r.kind]]
    /\ UNCHANGED <<head, set_len, remote_size, thread_count, chunk_size_mb, dpc, file_size, total_bytes,
                   monitor_bytes, fileCreated, file, chunks, downloaded_size>>
    /\ UNCHANGED sessionVars
    /\ UNCHANGED bindingVars

\* The file after a worker whose file position is `pos` has written the n blocks
\* of the resource that start at `src`: writer.write_all(&bytes).
write_all(f, pos, src, n) ==
    [o \in Offsets |-> IF pos <= o /\ o < pos + n THEN Remote(src + (o - pos)) ELSE f[o]]

\* download_chunk, lines 238-260: one item of the stream is written at the
\* worker's file position; once 512 KiB have accumulated they are added to
\* downloaded_size.
ChunkItem(i) ==
    /\ dpc = "joining"
    /\ i \in DOMAIN worker
    /\ worker[i].pc = "stream"
    /\ worker[i].left > 0
    /\ \E n \in 1..Min(worker[i].left, MaxItem) :
          LET wk == worker[i]
              pos == chunks[i].start_offset + wk.written
              local == wk.local + n
          IN  /\ file' = write_all(file, pos, wk.from + wk.written, n)
              /\ IF local >= BATCH_UPDATE_THRESHOLD
                 THEN /\ downloaded_size' = downloaded_size + local
                      /\ worker' = [worker EXCEPT ![i] =
                                       [@ EXCEPT !.pc = "publish", !.left = @ - n,
                                                 !.written = @ + n, !.local = local,
                                                 !.elapsed = 0]]
                 ELSE /\ UNCHANGED downloaded_size
                      /\ worker' = [worker EXCEPT ![i] =
                                       [@ EXCEPT !.pc = AfterItem(wk), !.left = @ - n,
                                                 !.written = @ + n, !.local = local,
                                                 !.elapsed = 0]]
    /\ UNCHANGED <<head, set_len, remote_size, thread_count, chunk_size_mb, dpc, file_size, total_bytes,
                   monitor_bytes, fileCreated, chunks>>
    /\ UNCHANGED sessionVars
    /\ UNCHANGED bindingVars

\* Lines 256 and 274: the delta given to monitor.add_bytes.
PublishedDelta_NoTail(w) == IF w.pc = "publish tail" THEN 0 ELSE w.local

PublishedDelta(w) == w.local

\* download_chunk, lines 255-259 and 273-275: monitor.add_bytes(local_downloaded).
ChunkPublish(i) ==
    /\ dpc = "joining"
    /\ i \in DOMAIN worker
    /\ worker[i].pc \in {"publish", "publish tail"}
    /\ monitor_bytes' = monitor_bytes + PublishedDelta(worker[i])
    /\ worker' = [worker EXCEPT ![i] =
                     [@ EXCEPT !.pc = IF @ = "publish" THEN AfterItem(worker[i]) ELSE "ok",
                               !.local = 0]]
    /\ UNCHANGED <<head, set_len, remote_size, thread_count, chunk_size_mb, dpc, file_size, total_bytes,
                   fileCreated, file, chunks, downloaded_size>>
    /\ UNCHANGED sessionVars
    /\ UNCHANGED bindingVars

\* download_chunk, lines 238-239 and 268-278: the stream fails (the `?` returns
\* the error) or ends (the tail is flushed, Ok(())).
ChunkStreamEnd(i) ==
    /\ dpc = "joining"
    /\ i \in DOMAIN worker
    /\ worker[i].pc = "stream"
    /\ worker[i].left = 0
    /\ ~worker[i].silent
    /\ IF worker[i].endErr
       THEN /\ worker' = [worker EXCEPT ![i] = [@ EXCEPT !.pc = "err"]]
            /\ UNCHANGED downloaded_size
       ELSE IF worker[i].local > 0
       THEN /\ downloaded_size' = downloaded_size + worker[i].local
            /\ worker' = [worker EXCEPT ![i] = [@ EXCEPT !.pc = "publish tail"]]
       ELSE /\ worker' = [worker EXCEPT ![i] = [@ EXCEPT !.pc = "ok"]]
            /\ UNCHANGED downloaded_size
    /\ UNCHANGED <<head, set_len, remote_size, thread_count, chunk_size_mb, dpc, file_size, total_bytes,
                   monitor_bytes, fileCreated, file, chunks>>
    /\ UNCHANGED sessionVars
    /\ UNCHANGED bindingVars

\* download_chunk, lines 212-225: a period of the watchdog's interval passes while
\* the worker waits for the next item of a stream that has gone silent; when more than STALL_TIMEOUT
\* has passed since the last item, the watchdog sends on stalled_tx (an error on
\* the closed channel, which is ignored) and ends.
StallWatch(i) ==
    /\ dpc = "joining"
    /\ i \in DOMAIN worker
    /\ worker[i].pc = "stream"
    /\ worker[i].left = 0
    /\ worker[i].silent
    /\ worker[i].watch = "running"
    /\ LET elapsed == worker[i].elapsed + 1
       IN  worker' = [worker EXCEPT ![i] =
                         [@ EXCEPT !.elapsed = elapsed,
                                   !.watch = IF elapsed > STALL_TIMEOUT
                                             THEN "done" ELSE "running"]]
    /\ UNCHANGED <<head, set_len, remote_size, thread_count, chunk_size_mb, dpc, file_size, total_bytes,
                   monitor_bytes, fileCreated, file, chunks, downloaded_size>>
    /\ UNCHANGED sessionVars
    /\ UNCHANGED bindingVars

\* download, lines 384-389: the result of download once every worker was joined.
DownloadResult == IF downloaded_size # file_size THEN "retErr" ELSE "retOk"

\* download, lines 375-389: every worker is joined (what a worker returned is
\* looked at only when the worker panicked), then the sizes are compared.
JoinAll ==
    /\ dpc = "joining"
    /\ \A i \in DOMAIN worker : worker[i].pc \in {"ok", "err"}
    /\ dpc' = DownloadResult
    /\ UNCHANGED <<head, set_len, remote_size, thread_count, chunk_size_mb, file_size, total_bytes,
                   monitor_bytes, fileCreated, file, chunks, worker, downloaded_size>>
    /\ UNCHANGED sessionVars
    /\ UNCHANGED bindingVars

NextDownload ==
    \/ Probe
    \/ OpenFile
    \/ Allocate
    \/ create_chunks
    \/ ChunkLoop
    \/ SpawnChunks
    \/ \E i \in 1..MaxChunks : ChunkGet(i)
    \/ \E i \in 1..MaxChunks : ChunkItem(i)
    \/ \E i \in 1..MaxChunks : ChunkPublish(i)
    \/ \E i \in 1..MaxChunks : ChunkStreamEnd(i)
    \/ \E i \in 1..MaxChunks : StallWatch(i)
    \/ JoinAll
    \/ TickerTick(1)

SpecDownload == InitDownload /\ [][NextDownload]_vars

\* Every worker that can take a step takes it, the timers fire, and download goes
\* on; nothing forces the session's ticker to be observed.
FairnessDownload ==
    /\ WF_vars(Probe)
    /\ WF_vars(OpenFile)
    /\ WF_vars(Allocate)
    /\ WF_vars(create_chunks)
    /\ WF_vars(ChunkLoop)
    /\ WF_vars(SpawnChunks)
    /\ WF_vars(JoinAll)
    /\ \A i \in 1..MaxChunks :
          /\ WF_vars(ChunkGet(i))
          /\ WF_vars(ChunkItem(i))
          /\ WF_vars(ChunkPublish(i))
          /\ WF_vars(ChunkStreamEnd(i))
          /\ WF_vars(StallWatch(i))

SpecDownloadFair == InitDownload /\ [][NextDownload]_vars /\ FairnessDownload

\* The tokio runtime runs every task that is ready: the run loops, the tickers,
\* the task workers and the pause/stop calls in progress take their next step.
\* Nothing forces a caller to call, the interval to tick, a delivery to fail or
\* the server to answer: downloader.download returns only when its chunk streams
\* end.
Fairness ==
    /\ \A c \in Calls :
          /\ WF_vars(SendStart(c))
          /\ WF_vars(StopMonitor(c))
          /\ WF_vars(AwaitMonitor(c))
          /\ WF_vars(SendEnd(c))
          /\ WF_vars(ClearToken(c))
          /\ WF_vars(TickerExit(c))
    /\ \A c \in Calls, t \in Tasks :
          /\ WF_vars(JoinNext(c, t))
          /\ WF_vars(TaskStartOne(c, t))
          /\ WF_vars(TaskSendErr(c, t))
          /\ WF_vars(TaskSendEndOne(c, t))
          /\ WF_vars(TaskAborted(c, t))
    /\ WF_vars(PauseMsg)
    /\ WF_vars(StopClose)
    /\ WF_vars(StopMsg)

SpecFair == Init /\ [][Next]_vars /\ Fairness

\* The runs in which, moreover, every downloader.download call returns.
DownloadsTerminate ==
    \A c \in Calls, t \in Tasks : WF_vars(TaskDownloadReturns(c, t))

\* The session on which pause_download or stop_download is called at most once.
NextOneControl == Next /\ nPause' + nStop' <= 1

SpecOneControl == Init /\ [][NextOneControl]_vars /\ Fairness /\ DownloadsTerminate

\* ================================================================== binding
\* The handle the library returns for a new session: the next unused one.
NewId(id) == lib[id] = "none" /\ (IF id = 1 THEN TRUE ELSE lib[id - 1] # "none")

bindingUnchanged ==
    /\ UNCHANGED sessionVars
    /\ UNCHANGED downloadVars

\* TTHSDownloader::start_download, lines 156-188: the library creates the session
\* and starts it, and returns its id; the channel is registered afterwards.
TTHSDownloader_start_download(id) ==
    /\ NewId(id)
    /\ lib' = [lib EXCEPT ![id] = "running"]
    /\ origin' = [origin EXCEPT ![id] = "start_download"]
    /\ bpc' = [bpc EXCEPT ![id] = "register"]
    /\ UNCHANGED <<SENDER_MAP, emitted, received>>
    /\ bindingUnchanged

\* TTHSDownloader::get_downloader, lines 195-224: the library creates the session
\* without starting it.
TTHSDownloader_get_downloader(id) ==
    /\ NewId(id)
    /\ lib' = [lib EXCEPT ![id] = "created"]
    /\ origin' = [origin EXCEPT ![id] = "get_downloader"]
    /\ bpc' = [bpc EXCEPT ![id] = "register"]
    /\ UNCHANGED <<SENDER_MAP, emitted, received>>
    /\ bindingUnchanged

\* register_channel, lines 50-54, called at lines 190 and 226.
register_channel(id) ==
    /\ bpc[id] = "register"
    /\ SENDER_MAP' = SENDER_MAP \cup {id}
    /\ bpc' = [bpc EXCEPT ![id] = "idle"]
    /\ UNCHANGED <<lib, origin, emitted, received>>
    /\ bindingUnchanged

\* TTHSDownloader::start_download_by_id, lines 230-232.
TTHSDownloader_start_download_by_id(id) ==
    /\ lib[id] = "created"
    /\ bpc[id] = "idle"
    /\ lib' = [lib EXCEPT ![id] = "running"]
    /\ UNCHANGED <<origin, bpc, SENDER_MAP, emitted, received>>
    /\ bindingUnchanged

\* The channels a message of session id is sent to, lines 88-91: every sender of
\* the table.
Receivers(id) == SENDER_MAP

\* global_c_callback, lines 64-92: a running session hands an event to the
\* callback, which sends it to the receivers.
global_c_callback(id) ==
    /\ lib[id] = "running"
    /\ emitted[id] < MaxEvents
    /\ emitted' = [emitted EXCEPT ![id] = @ + 1]
    /\ received' = [ch \in Sessions |->
                       IF ch \in Receivers(id)
                       THEN [received[ch] EXCEPT ![id] = @ + 1]
                       ELSE received[ch]]
    /\ UNCHANGED <<lib, origin, bpc, SENDER_MAP>>
    /\ bindingUnchanged

\* TTHSDownloader::stop_download, line 247: the call into the library.
TTHSDownloader_stop_download(id) ==
    /\ lib[id] \in {"created", "running"}
    /\ bpc[id] = "idle"
    /\ lib' = [lib EXCEPT ![id] = "stopped"]
    /\ bpc' = [bpc EXCEPT ![id] = "unregister"]
    /\ UNCHANGED <<origin, SENDER_MAP, emitted, received>>
    /\ bindingUnchanged

\* unregister_channel, lines 56-58, called at line 248.
unregister_channel(id) ==
    /\ bpc[id] = "unregister"
    /\ SENDER_MAP' = SENDER_MAP \ {id}
    /\ bpc' = [bpc EXCEPT ![id] = "idle"]
    /\ UNCHANGED <<lib, origin, emitted, received>>
    /\ bindingUnchanged

NextBinding ==
    \/ \E id \in Sessions : TTHSDownloader_start_download(id)
    \/ \E id \in Sessions : TTHSDownloader_get_downloader(id)
    \/ \E id \in Sessions : register_channel(id)
    \/ \E id \in Sessions : TTHSDownloader_start_download_by_id(id)
    \/ \E id \in Sessions : global_c_callback(id)
    \/ \E id \in Sessions : TTHSDownloader_stop_download(id)
    \/ \E id \in Sessions : unregister_channel(id)

SpecBinding == Init /\ [][NextBinding]_vars

\* ------------------------------------------------------------------ claims
\* An invocation was accepted and has not returned: its run loop is active.
RunActive(c) == pc[c] \in {"sendStart", "join", "stopMon", "awaitMon", "sendEnd", "clear"}

\* The invocation spawned its tasks and its ticker.
Spawned(c) == ticker[c] # "off"

\* The invocation has left the join loop of lines 221-230.
LoopLeft(c) == Spawned(c) /\ pc[c] # "join"

\* Every task of the run has stopped for good.
TasksSettled(c) == \A t \in ConfigTasks : task[c][t] \in {"done", "joined", "aborted"}

\* No pause, no stop and no completed run has cleared cancel_token so far.
NeverCleared == nPause = 0 /\ nStop = 0 /\ \A c \in Calls : pc[c] # "retOk"

\* C1: as long as nothing has cleared cancel_token (no pause, no stop, no run that
\* completed), of the start / start_multiple / resume calls issued on the idle
\* session exactly one is accepted; every other one returns "downloader already
\* running", and that step emits no event, spawns no task and no ticker and
\* leaves cancel_token as it is.
C1_ExactlyOneStartAccepted ==
    /\ [](NeverCleared =>
            /\ Cardinality(Accepted) <= 1
            /\ (\E c \in Calls : pc[c] # "idle") => Cardinality(Accepted) = 1
            /\ \A c \in Calls : pc[c] = "retRunning" =>
                   /\ cancel_token # InstalledToken(c)
                   /\ ~Spawned(c)
                   /\ \A k \in EventKinds : k[2] = c => cnt[k] = 0)
    /\ [][\A c \in Calls : pc[c] = "idle" /\ pc'[c] = "retRunning" =>
              /\ cancel_token' = cancel_token
              /\ cancel_token # None
              /\ UNCHANGED <<cancelled, task, ticker, cnt, facts>>]_vars

C1_Witness ==
    \E c, d \in Calls :
        /\ NeverCleared
        /\ pc[c] = "join"
        /\ pc[d] = "retRunning"

\* C2: cancel_token is Some exactly when a run loop of the session is active.
C2_TokenSetIffRunActive == (cancel_token # None) <=> (\E c \in Calls : RunActive(c))

C6_ErrIffFailed ==
    \A c \in Calls, t \in ConfigTasks :
        /\ cnt[<<"err", c, t>>] <= 1
        /\ <<"err after endOne", c, t>> \notin facts
        /\ (~is_cancelled(c) /\ cnt[<<"endOne", c, t>>] = 1) =>
               (cnt[<<"err", c, t>>] = 1 <=> dlres[c][t] = "err")

C6_Witness ==
    \E c \in Calls, t, u \in ConfigTasks :
        /\ ~is_cancelled(c)
        /\ dlres[c][t] = "err" /\ cnt[<<"endOne", c, t>>] = 1 /\ cnt[<<"err", c, t>>] = 1
        /\ dlres[c][u] = "ok" /\ cnt[<<"endOne", c, u>>] = 1 /\ cnt[<<"err", c, u>>] = 0

\* C7: in every run the start event comes before every startOne and the end event
\* after every endOne, also when the run is cancelled.
C7_StartFirstEndLast ==
    \A c \in Calls :
        /\ <<"startOne before start", c>> \notin facts
        /\ <<"endOne after end", c>> \notin facts

\* C8: no event is emitted after stop_download has returned.
C8_NoEventAfterStop == <<"after stop returned">> \notin facts

\* C9: in a run that is not cancelled a failed task aborts no sibling: no task is
\* aborted, there is at most one end event, and when it is emitted every task has
\* emitted its endOne, the failed ones after their err.
C9_FailureIsolated ==
    \A c \in Calls : ~is_cancelled(c) =>
        /\ ~abortReq[c]
        /\ \A t \in ConfigTasks : task[c][t] # "aborted"
        /\ cnt[<<"end", c, 0>>] <= 1
        /\ <<"end before endOne", c>> \notin facts
        /\ cnt[<<"end", c, 0>>] = 1 =>
               \A t \in ConfigTasks :
                   /\ cnt[<<"endOne", c, t>>] = 1
                   /\ dlres[c][t] = "err" => cnt[<<"err", c, t>>] = 1

C9_Witness ==
    \E c \in Calls, t, u \in ConfigTasks :
        /\ ~is_cancelled(c)
        /\ cnt[<<"end", c, 0>>] = 1
        /\ dlres[c][t] = "err"
        /\ dlres[c][u] = "ok"

\* C10: once pause or stop has cancelled the token of an active run, the downloads
\* of the run stop and its run loop exits.
C10_CancelLeadsToExit ==
    \A c \in Calls :
        (is_cancelled(c) /\ RunActive(c)) ~>
            (~RunActive(c) /\ \A t \in ConfigTasks : task[c][t] # "download")

\* C3: when download returns Ok, the file holds the remote resource: at every
\* offset below content_length the stored block is the resource's block.
C3_FileEqualsRemote ==
    dpc = "retOk" => \A o \in 0..(file_size - 1) : file[o] = Remote(o)

\* C4: once the chunks were dispatched, download returns Ok if and only if every
\* chunk worker returned Ok and the published deltas add up to content_length.
C4_OkIffAllChunksOk ==
    (dpc \in {"retOk", "retErr"} /\ worker # <<>>) =>
        (dpc = "retOk" <=>
            /\ \A i \in DOMAIN worker : worker[i].pc = "ok"
            /\ downloaded_size = file_size)

\* C11: once pause or stop has cancelled the token of a run, no err event of that
\* run is handed to the sink.
C11_NoErrAfterCancel == \A c \in Calls : <<"err after cancel", c>> \notin facts

\* C12: once the pause that cancelled a run has emitted its msg event, the run
\* emits no update event as long as no later start or resume was accepted.
C12_NoUpdateAfterPaused == \A c \in Calls : <<"update after paused", c>> \notin facts

\* C13: pause_download leaves cancel_token None, and it stays None until a start
\* or resume is accepted; a start / resume call made while cancel_token is None is
\* accepted and installs its token, and one made while cancel_token is set is
\* rejected and changes nothing (resume_download is start_download).
C13_PauseClearsTokenForResume ==
    /\ [][(nPause' > nPause \/ nStop' > nStop) => cancel_token' = None]_vars
    /\ [][(cancel_token = None /\ cancel_token' # None) =>
              \E c \in Calls : /\ pc[c] = "idle"
                               /\ pc'[c] = "sendStart"
                               /\ cancel_token' = InstalledToken(c)]_vars
    /\ [][\A c \in Calls : (pc[c] = "idle" /\ pc'[c] # "idle") =>
              IF cancel_token = None
              THEN pc'[c] = "sendStart" /\ cancel_token' = InstalledToken(c)
              ELSE /\ pc'[c] = "retRunning"
                   /\ UNCHANGED <<cancel_token, cancelled, task, ticker, cnt, facts>>]_vars

C13_Witness ==
    \E c, d \in Calls :
        /\ c < d
        /\ nPause = 1 /\ nStop = 0 /\ ctl = "idle"
        /\ c \in cancelled
        /\ pc[d] = "join"
        /\ cancel_token = InstalledToken(d)

\* C18: a failed delivery makes no start call and no stop call return an error.
C18_SendFailureSwallowed ==
    /\ \A c \in Calls : pc[c] # "retSendErr"
    /\ stopResult # "err"

\* C19: a stop_download call on a session that was stopped before emits no event
\* and returns an error.
C19_SecondStopFailsSilently ==
    nStop > 1 =>
        /\ <<"event of a repeated stop">> \notin facts
        /\ stopResult # "none" => stopResult = "err"

\* C20: once stop_download has returned, no start / start_multiple / resume call
\* is accepted.
C20_NoStartAfterStop ==
    [][\A c \in Calls : (stopReturned /\ pc[c] = "idle") =>
                             pc'[c] \in {"idle", "retRunning"}]_vars

\* The chunk fetches in flight: spawned and not yet returned.
InFlight == {i \in DOMAIN worker : worker[i].pc \notin {"ok", "err"}}

\* C14: at every moment of a download at most thread_count chunk fetches are in
\* flight.
C14_InFlightAtMostThreadCount == Cardinality(InFlight) <= thread_count

\* The connection of chunk i has delivered nothing for longer than the stall
\* timeout.
Stalled(i) ==
    /\ i \in DOMAIN worker
    /\ worker[i].pc = "stream"
    /\ worker[i].elapsed > STALL_TIMEOUT

\* C15: a chunk fetch whose connection has delivered nothing for longer than the
\* stall timeout eventually returns an error.
C15_StallLeadsToFailure ==
    \A i \in 1..MaxChunks : Stalled(i) ~> (i \in DOMAIN worker /\ worker[i].pc = "err")

\* C16: create_chunks does not panic, every chunk it pushes has start <= end, the
\* first starts at 0, each next one starts at the previous end + 1, and when it
\* returns the last chunk ends at file_size - 1.
C16_ChunksCoverFile ==
    /\ dpc # "panic"
    /\ \A i \in DOMAIN chunks :
           /\ chunks[i].start_offset <= chunks[i].end_offset
           /\ chunks[i].start_offset = IF i = 1 THEN 0 ELSE chunks[i - 1].end_offset + 1
    /\ dpc \in {"joining", "retOk", "retErr"} /\ worker # <<>> =>
           chunks[Len(chunks)].end_offset = file_size - 1

\* C17: every update event carries the keys downloaded_bytes and Downloaded, with
\* the same value.
C17_DownloadedIsAlias ==
    lastUpdate # <<>> =>
        /\ {"downloaded_bytes", "Downloaded"} \subseteq DOMAIN lastUpdate[1]
        /\ lastUpdate[1]["Downloaded"] = lastUpdate[1]["downloaded_bytes"]

\* C27: in every run the ticker has stopped when the end event is emitted, and no
\* update event of the run is emitted after its end event.
C27_TickerStopsBeforeEnd ==
    \A c \in Calls :
        /\ <<"update after end", c>> \notin facts
        /\ cnt[<<"end", c, 0>>] > 0 => ticker[c] = "stopped"

C27_Witness ==
    \E c \in Calls :
        /\ is_cancelled(c)
        /\ cnt[<<"update", c, 0>>] = 1
        /\ cnt[<<"end", c, 0>>] = 1

\* C28: the only event a stop_download call emits is the stopped msg, and no event
\* is handed to the sinks after they were closed.
C28_StopEmitsOnlyStoppedMsg ==
    /\ <<"paused msg of stop">> \notin facts
    /\ <<"event after sinks closed">> \notin facts

\* C30: at most one run loop of the session is active at any time.
C30_AtMostOneRunActive == Cardinality({c \in Calls : RunActive(c)}) <= 1

\* The HEAD probe failed: a transport error, a status that is not 2xx, or a
\* Content-Length that is missing, does not parse, or is zero or negative.
HeadFailed(h) ==
    \/ ~h.sent
    \/ ~h.success
    \/ ~h.present
    \/ ~h.parses
    \/ h.value <= 0

\* C22: when the HEAD probe fails, download has failed at the probe: the
\* destination file was not created, the monitor's total_bytes is as it was, no
\* chunk was made and no chunk GET was issued.
C22_ProbeFailureFailsFirst ==
    (head # <<>> /\ HeadFailed(head[1])) =>
        /\ dpc = "retErr"
        /\ ~fileCreated
        /\ total_bytes = 0
        /\ file_size = 0
        /\ set_len = "none"
        /\ chunks = <<>>
        /\ worker = <<>>

C22_Witness ==
    /\ head # <<>>
    /\ head[1].sent /\ head[1].success /\ head[1].present /\ head[1].parses
    /\ head[1].value = 0
    /\ dpc = "retErr"

\* C23: a chunk whose ranged GET was answered with status 200 has failed, and
\* nothing of that answer's body was written.
C23_Status200FailsChunk ==
    \A i \in DOMAIN worker :
        worker[i].kind = "200" => worker[i].pc = "err" /\ worker[i].written = 0

\* download failed before any chunk was made or fetched.
FailedBeforeChunks == dpc = "retErr" /\ chunks = <<>> /\ worker = <<>>

RECURSIVE PublishInProgress(_)
PublishInProgress(i) ==
    IF i = 0 THEN 0
    ELSE PublishInProgress(i - 1)
             + (IF worker[i].pc \in {"publish", "publish tail"} THEN worker[i].local ELSE 0)

C26_WritesInsideOwnRange ==
    \A i \in DOMAIN worker :
        chunks[i].start_offset + worker[i].written - 1 <= chunks[i].end_offset

\* The effective chunk size as the specification gives it.
SpecChunkSize ==
    LET per_worker == file_size \div (2 * thread_count)
        chunk_size == chunk_size_mb * MiB
    IN  IF per_worker <= chunk_size THEN chunk_size
        ELSE IF per_worker > MiB THEN per_worker ELSE MiB

\* C29: for thread_count >= 1 and chunk_size >= 1 every chunk that is followed by
\* another has exactly the effective size, and the last has at least one byte and
\* at most that size.
C29_EffectiveChunkSize ==
    (thread_count >= 1 /\ chunk_size_mb >= 1) =>
        \A i \in DOMAIN chunks :
            LET size == chunks[i].end_offset - chunks[i].start_offset + 1
            IN  /\ i < Len(chunks) => size = SpecChunkSize
                /\ 1 <= size /\ size <= SpecChunkSize

C29_Witness ==
    /\ thread_count >= 1 /\ chunk_size_mb >= 1
    /\ file_size \div (2 * thread_count) > chunk_size_mb * MiB
    /\ Len(chunks) = 2
    /\ worker # <<>>

\* C21: an event of one session is delivered to no channel but the one registered
\* for that session.
C21_EventsRoutedToOwnChannel ==
    \A ch, id \in Sessions : ch # id => received[ch][id] = 0

\* The invocation has returned to its caller after it was accepted.
Returned(c) == pc[c] \in {"retOk", "retSendErr"}

\* C31: while a run is active and neither pause nor stop was called since it was
\* accepted, cancel_token holds the token this run installed; and a run that
\* finishes clears cancel_token only when it holds this run's own token (when it
\* holds another one, the step leaves it alone).
C31_TokenBelongsToItsRun ==
    /\ [](\A c \in Calls : (RunActive(c) /\ c \in undisturbed) =>
                               cancel_token = InstalledToken(c))
    /\ [][\A c \in Calls : (pc[c] = "clear" /\ pc'[c] = "retOk") =>
               (cancel_token = InstalledToken(c) \/ cancel_token' = cancel_token)]_vars

\* C32: once an accepted invocation has returned, with Ok or with an error,
\* cancel_token is None or the token of a later run: never the token the returned
\* invocation installed.
C32_ReturnLeavesTokenCleared ==
    \A c \in Calls : Returned(c) =>
        (cancel_token = None \/ cancel_token \in {InstalledToken(d) : d \in (c + 1)..NumCalls})

C34_NoEventLostBeforeRegistration ==
    \A id \in Sessions :
        origin[id] = "start_download" => received[id][id] = emitted[id]

\* C35: whenever download is about to call create_chunks, the thread_count and
\* the chunk_size it passes are both at least 1.
C35_CreateChunksArgsPositive ==
    dpc = "create_chunks" => (thread_count >= 1 /\ chunk_size_mb * MiB >= 1)

====
